---- MODULE Spec2Model ----
(***************************************************************************)
(* update_medical.py and update_forvia.py: two scripts that read main.js,  *)
(* apply a fixed list of re.sub substitutions to its text and write it     *)
(* back.                                                                   *)
(*                                                                         *)
(* Text is a sequence of chunks.  A chunk is a piece of literal text taken *)
(* from the scripts' patterns and replacements (a TLA+ string holding that *)
(* text), a piece of white space (one of the characters SP, LF, CR, or the *)
(* run of spaces a replacement template indents a line with) or a piece of *)
(* text no pattern mentions (tOther).  No other chunk ends in white space, *)
(* no pattern literal can straddle two chunks and every \s+ of the         *)
(* patterns is followed by a literal that is not white space, so matching  *)
(* chunk by chunk agrees with matching character by character.             *)
(***************************************************************************)
EXTENDS Integers, Sequences, FiniteSets, TLC

\* ---------------------------------------------------------------- bounds
MaxSegs == 2

MaxRuns == 2

\* ------------------------------------------------- white-space characters
SP == " "

LF == "\n"

CR == "\r"

\* The indentation the replacement templates write after "\n": 4, 6, 8 and
\* 10 spaces.
Indent4 == "    "

Indent6 == "      "

Indent8 == "        "

Indent10 == "          "

\* Python's \s on str: space, \n and \r are white space (so are \t \f \v,
\* which no chunk of the model holds); a chunk is white space when all its
\* characters are.
IsSpace(t) == t \in {SP, LF, CR, Indent4, Indent6, Indent8, Indent10}

\* --------------------------------------------------------- literal chunks
tIf == "if ("

tABC == "object.userData.type === 'trashTruck' || object.userData.type === 'convoyeur' || object.userData.type === 'sensorSensei'"

tOrMedical == " || object.userData.type === 'medical'"

tOrForvia == " || object.userData.type === 'forviaCAR'"

tRP == ")"

tLB == " {"

tRB == "}"

tSenseiCond == "object.userData.type === 'sensorSensei' && !sensorSenseiModalClosed"

tShowSensei == "showSensorSenseiModal();"

tMedicalCond == "object.userData.type === 'medical' && !medicalModalClosed"

tShowMedical == "showMedicalModal();"

tForviaCond == "object.userData.type === 'forviaCAR' && !forviaCarModalClosed"

tShowForvia == "showForviaCarModal();"

tResetSenseiNav == "// Reset sensorSensei modal state when navigating to different areas"

tSenseiClosed == "sensorSenseiModalClosed = false;"

tSenseiOpened == "sensorSenseiModalOpened = false;"

tResetMedicalNav == "// Reset medical modal state when navigating to different areas"

tResetMedicalOverview == "// Reset medical modal state when going back to overview"

tMedicalClosed == "medicalModalClosed = false;"

tMedicalOpened == "medicalModalOpened = false;"

tResetForviaNav == "// Reset forviaCAR modal state when navigating to different areas"

tResetForviaOverview == "// Reset forviaCAR modal state when going back to overview"

tForviaClosed == "forviaCarModalClosed = false;"

tForviaOpened == "forviaCarModalOpened = false;"

tComment == "// Handle objects that don't need camera movement (trashTruck, convoyeur, sensorSensei"

tCommaMedical == ", medical"

tCommaForvia == ", forviaCAR"

\* Text of main.js that no pattern mentions.
tOther == "scene.add(object);"

\* ------------------------------------------------ patterns and templates
\* A pattern is a sequence of literal chunks and WS, the \s+ of the regular
\* expression.  A template is a sequence of literal chunks and G1, the \1 back
\* reference.  In every pattern that has a group, the group is the whole
\* pattern, so \1 is the whole match.
WS == "\\s+"

G1 == "\\1"

\* The concatenation of a sequence of texts.
RECURSIVE Flat(_)
Flat(ss) ==
  IF Len(ss) = 0 THEN << >>
  ELSE IF Len(ss) = 1 THEN ss[1]
  ELSE LET m == Len(ss) \div 2
       IN  Flat(SubSeq(ss, 1, m)) \o Flat(SubSeq(ss, m + 1, Len(ss)))

Min(S) == CHOOSE x \in S : \A y \in S : x <= y

Max(S) == CHOOSE x \in S : \A y \in S : x >= y

\* "\n" followed by the indentation, as written in the replacement strings.
NLIndent(ind) == <<LF, ind>>

\* update_medical.py, in the order the script applies them.
MedicalRule1 ==
  [pat |-> <<tIf, tABC, tRP>>,
   rep |-> <<tIf, tABC, tOrMedical, tRP>>]

MedicalInsert2 ==
  NLIndent(Indent8) \o <<tIf, tMedicalCond, tRP, tLB>> \o NLIndent(Indent10)
    \o <<tShowMedical>> \o NLIndent(Indent8) \o <<tRB>>

MedicalRule2 ==
  [pat |-> <<WS, tIf, tSenseiCond, tRP, tLB, WS, tShowSensei, WS, tRB>>,
   rep |-> <<G1>> \o MedicalInsert2]

MedicalInsert3 ==
  NLIndent(Indent6) \o NLIndent(Indent6) \o <<tResetMedicalNav>> \o NLIndent(Indent6)
    \o <<tMedicalClosed>> \o NLIndent(Indent6) \o <<tMedicalOpened>>

MedicalRule3 ==
  [pat |-> <<WS, tResetSenseiNav, WS, tSenseiClosed, WS, tSenseiOpened>>,
   rep |-> <<G1>> \o MedicalInsert3]

MedicalRule4 ==
  [pat |-> <<tComment, tRP>>,
   rep |-> <<tComment, tCommaMedical, tRP>>]

MedicalRules == <<MedicalRule1, MedicalRule2, MedicalRule3, MedicalRule4>>

\* Variant: pattern1 written against the condition as it was before the
\* medical integration.
ForviaRule1PreMedical ==
  [pat |-> <<tABC, tRP>>,
   rep |-> <<tABC, tOrForvia, tRP>>]

\* Variant: pattern1 and replacement1 include the closing parenthesis.
ForviaRule1Closed ==
  [pat |-> <<tABC, tOrMedical, tRP>>,
   rep |-> <<tABC, tOrMedical, tOrForvia, tRP>>]

\* update_forvia.py: pattern1..pattern5 with replacement1..replacement5.
ForviaRule1 ==
  [pat |-> <<tABC, tOrMedical>>,
   rep |-> <<tABC, tOrMedical, tOrForvia>>]

ForviaInsert2 ==
  NLIndent(Indent8) \o <<tIf, tForviaCond, tRP, tLB>> \o NLIndent(Indent10)
    \o <<tShowForvia>> \o NLIndent(Indent8) \o <<tRB>>

\* Variant: replacement2 puts the new block before \1.
ForviaRule2Before ==
  [pat |-> <<WS, tIf, tMedicalCond, tRP, tLB, WS, tShowMedical, WS, tRB>>,
   rep |-> ForviaInsert2 \o <<G1>>]

ForviaRule2 ==
  [pat |-> <<WS, tIf, tMedicalCond, tRP, tLB, WS, tShowMedical, WS, tRB>>,
   rep |-> <<G1>> \o ForviaInsert2]

ForviaRule3 ==
  [pat |-> <<tComment, tCommaMedical, tRP>>,
   rep |-> <<tComment, tCommaMedical, tCommaForvia, tRP>>]

ForviaInsert4 ==
  NLIndent(Indent4) \o NLIndent(Indent4) \o <<tResetForviaOverview>> \o NLIndent(Indent4)
    \o <<tForviaClosed>> \o NLIndent(Indent4) \o <<tForviaOpened>>

\* Variant: replacement4 without \1.
ForviaRule4NoGroup ==
  [pat |-> <<WS, tResetMedicalOverview, WS, tMedicalClosed, WS, tMedicalOpened>>,
   rep |-> ForviaInsert4]

ForviaRule4 ==
  [pat |-> <<WS, tResetMedicalOverview, WS, tMedicalClosed, WS, tMedicalOpened>>,
   rep |-> <<G1>> \o ForviaInsert4]

ForviaInsert5 ==
  NLIndent(Indent6) \o NLIndent(Indent6) \o <<tResetForviaNav>> \o NLIndent(Indent6)
    \o <<tForviaClosed>> \o NLIndent(Indent6) \o <<tForviaOpened>>

ForviaRule5 ==
  [pat |-> <<WS, tResetMedicalNav, WS, tMedicalClosed, WS, tMedicalOpened>>,
   rep |-> <<G1>> \o ForviaInsert5]

\* The order of the re.sub calls, lines 31-35.
ForviaRules == <<ForviaRule1, ForviaRule2, ForviaRule3, ForviaRule4, ForviaRule5>>

Scripts == {"medical", "forvia"}

Rules(s) == IF s = "medical" THEN MedicalRules ELSE ForviaRules

SuccessMessage(s) ==
  IF s = "medical" THEN "Medical integration completed successfully!"
  ELSE "FORVIA car integration completed successfully!"

\* ------------------------------------------------------------- re.sub
\* Number of white-space chunks of buf from position pos on.
RECURSIVE WSRun(_, _)
WSRun(buf, pos) ==
  IF pos <= Len(buf) /\ IsSpace(buf[pos]) THEN 1 + WSRun(buf, pos + 1) ELSE 0

\* The first character pat[i..] needs is at position pos of buf (or pat[i..]
\* needs none).
CanStart(pat, i, buf, pos) ==
  \/ i > Len(pat)
  \/ /\ pos <= Len(buf)
     /\ IF pat[i] = WS THEN IsSpace(buf[pos]) ELSE buf[pos] = pat[i]

\* MatchFrom(pat, i, buf, pos): the regular expression engine matching
\* pat[i..] at position pos of buf.  The result is the position after the
\* match, or 0 when there is none.  \s+ is greedy and backtracks: of the
\* lengths 1..run it takes the longest for which the rest of the pattern
\* matches.
RECURSIVE MatchFrom(_, _, _, _)
MatchFrom(pat, i, buf, pos) ==
  IF i > Len(pat) THEN pos
  ELSE IF pat[i] = WS
       THEN LET ks == {k \in 1..WSRun(buf, pos) :
                        /\ CanStart(pat, i + 1, buf, pos + k)
                        /\ MatchFrom(pat, i + 1, buf, pos + k) # 0}
            IN  IF ks = {} THEN 0 ELSE MatchFrom(pat, i + 1, buf, pos + Max(ks))
  ELSE IF pos <= Len(buf) /\ buf[pos] = pat[i] THEN MatchFrom(pat, i + 1, buf, pos + 1)
  ELSE 0

\* Position after the match of pat that starts at pos, 0 when there is none.
MatchAt(pat, buf, pos) == MatchFrom(pat, 1, buf, pos)

\* The first position from pos on where pat matches, 0 when there is none:
\* the engine's search.
NextMatch(pat, buf, pos) ==
  LET starts == {p \in pos..Len(buf) : CanStart(pat, 1, buf, p) /\ MatchAt(pat, buf, p) # 0}
  IN  IF starts = {} THEN 0 ELSE Min(starts)

\* Variant: the template is emitted as it is written, \1 unexpanded.
ExpandLiteral(rep, m) == rep

\* The replacement template with \1 expanded to the matched text.
Expand(rep, m) == Flat([i \in 1..Len(rep) |-> IF rep[i] = G1 THEN m ELSE <<rep[i]>>])

\* The text sub stands at position i of buf.
At(sub, buf, i) ==
  /\ i >= 1
  /\ i + Len(sub) - 1 <= Len(buf)
  /\ sub # << >> => buf[i] = sub[1]
  /\ SubSeq(buf, i, i + Len(sub) - 1) = sub

\* Number of places where the text sub stands in buf.
Count(sub, buf) == Cardinality({i \in 1..Len(buf) : At(sub, buf, i)})

\* re.sub(pattern, repl, string) from position pos on: search from the left;
\* copy the text before the match, emit the expanded template, and search
\* again after the match; with no match left, copy the rest.
RECURSIVE SubFrom(_, _, _)
SubFrom(rule, buf, pos) ==
  LET p == NextMatch(rule.pat, buf, pos)
  IN  IF p = 0 THEN SubSeq(buf, pos, Len(buf))
      ELSE LET e == MatchAt(rule.pat, buf, p)
           IN  SubSeq(buf, pos, p - 1) \o Expand(rule.rep, SubSeq(buf, p, e - 1))
                 \o SubFrom(rule, buf, e)

\* Variant: re.sub(..., count=1), only the first match is replaced.
SubFirstOnly(rule, buf) ==
  LET p == NextMatch(rule.pat, buf, 1)
  IN  IF p = 0 THEN buf
      ELSE LET e == MatchAt(rule.pat, buf, p)
           IN  SubSeq(buf, 1, p - 1) \o Expand(rule.rep, SubSeq(buf, p, e - 1))
                 \o SubSeq(buf, e, Len(buf))

\* Variant: a \1 rule is skipped when the text it inserts is already there.
SubGuarded(rule, buf) ==
  IF rule.rep[1] = G1 /\ Count(Tail(rule.rep), buf) > 0 THEN buf
  ELSE SubFrom(rule, buf, 1)

Sub(rule, buf) == SubFrom(rule, buf, 1)

\* --------------------------------------------------------- text-mode I/O
\* f.read() of a file opened with open(..., 'r') and the default newline=None:
\* universal newlines, "\r\n" and a lone "\r" both arrive as "\n".
Decode(bytes) ==
  LET Kept(i) == ~(bytes[i] = LF /\ i > 1 /\ bytes[i - 1] = CR)
      keep == SelectSeq([i \in 1..Len(bytes) |-> i], Kept)
  IN  [j \in 1..Len(keep) |-> IF bytes[keep[j]] = CR THEN LF ELSE bytes[keep[j]]]

\* The platforms the scripts can run on, and os.linesep on each.
Platforms == {"posix", "nt"}

LineSep(p) == IF p = "nt" THEN <<CR, LF>> ELSE <<LF>>

\* f.write() to a file opened with open(..., 'w') and the default newline=None:
\* every "\n" is written as os.linesep.
Encode(p, text) ==
  IF LineSep(p) = <<LF>> THEN text
  ELSE Flat([i \in 1..Len(text) |-> IF text[i] = LF THEN LineSep(p) ELSE <<text[i]>>])

\* ------------------------------------------- the contents main.js may have
\* main.js is made of at most MaxSegs of these pieces, repeated or not, in the
\* order of the list: a Windows line ending, text no pattern mentions, and the
\* text each pattern looks for, before and after an earlier integration.
SegCRLF == <<CR, LF>>

SegOther == <<tOther>>

SegCondPre == <<tIf, tABC, tRP>>

SegCondMedical == <<tIf, tABC, tOrMedical, tRP>>

SegSenseiBlock == <<LF, SP, tIf, tSenseiCond, tRP, tLB, LF, tShowSensei, LF, tRB>>

SegMedicalBlock == <<LF, SP, tIf, tMedicalCond, tRP, tLB, LF, tShowMedical, LF, tRB>>

SegResetSenseiNav == <<LF, tResetSenseiNav, LF, tSenseiClosed, LF, tSenseiOpened>>

SegResetMedicalNav == <<LF, tResetMedicalNav, LF, tMedicalClosed, LF, tMedicalOpened>>

SegResetMedicalOverview == <<LF, tResetMedicalOverview, LF, tMedicalClosed, LF, tMedicalOpened>>

SegCommentPre == <<tComment, tRP>>

SegCommentMedical == <<tComment, tCommaMedical, tRP>>

Segments ==
  <<SegCRLF, SegOther, SegCondPre, SegCondMedical, SegSenseiBlock, SegMedicalBlock,
    SegResetSenseiNav, SegResetMedicalNav, SegResetMedicalOverview,
    SegCommentPre, SegCommentMedical>>

Choices(n) ==
  {f \in [1..n -> 1..Len(Segments)] : \A i \in 1..(n - 1) : f[i] <= f[i + 1]}

Files ==
  UNION {{Flat([i \in 1..n |-> Segments[f[i]]]) : f \in Choices(n)} : n \in 0..MaxSegs}

ReadErrors == {"FileNotFoundError", "PermissionError", "UnicodeDecodeError"}

\* ------------------------------------------------------------------ state
VARIABLES
  platform,  \* the operating system the scripts run on
  file,      \* the bytes of main.js
  pc,        \* where the process is: idle, read, rules, write, opened, print, done, aborted
  script,    \* the script being run
  content,   \* the script's variable content
  ruleIdx,   \* the re.sub call that is next
  out,       \* standard output, all runs
  err,       \* the uncaught exception that ended the process, or "none"
  orig,      \* history: main.js before the first run
  hist,      \* history: content as read, then after each re.sub of this run
  log,       \* history: the scripts that ran to their end, in order
  snaps,     \* history: content as written by each of them
  wopens,    \* history: how often this run opened main.js for writing
  prior,     \* history: main.js when this run started
  runs       \* history: how many runs were started

vars ==
  <<platform, file, pc, script, content, ruleIdx, out, err, orig, hist, log, snaps,
    wopens, prior, runs>>

Init ==
  /\ platform \in Platforms
  /\ file \in Files
  /\ orig = file
  /\ pc = "idle"
  /\ script = "none"
  /\ content = << >>
  /\ ruleIdx = 0
  /\ out = << >>
  /\ err = "none"
  /\ hist = << >>
  /\ log = << >>
  /\ snaps = << >>
  /\ wopens = 0
  /\ prior = file
  /\ runs = 0

\* The developer starts one of the scripts; a new process has no content yet.
Invoke(s) ==
  /\ pc \in {"idle", "done"}
  /\ runs < MaxRuns
  /\ runs' = runs + 1
  /\ prior' = file
  /\ pc' = "read"
  /\ script' = s
  /\ content' = << >>
  /\ ruleIdx' = 0
  /\ hist' = << >>
  /\ wopens' = 0
  /\ UNCHANGED <<platform, file, out, err, orig, log, snaps>>

\* with open('main.js', 'r', encoding='utf-8') as f: content = f.read()
ReadOk ==
  /\ pc = "read"
  /\ content' = Decode(file)
  /\ hist' = <<Decode(file)>>
  /\ ruleIdx' = 1
  /\ pc' = "rules"
  /\ UNCHANGED <<platform, file, script, out, err, orig, log, snaps, wopens, prior, runs>>

\* Variant: the exception is caught and the run goes on with no text.
ReadFailIgnored(e) ==
  /\ pc = "read"
  /\ err' = e
  /\ content' = << >>
  /\ hist' = << << >> >>
  /\ ruleIdx' = 1
  /\ pc' = "rules"
  /\ UNCHANGED <<platform, file, script, out, orig, log, snaps, wopens, prior, runs>>

\* open() or read() raises; nothing catches it and the process ends.
ReadFail(e) ==
  /\ pc = "read"
  /\ err' = e
  /\ pc' = "aborted"
  /\ UNCHANGED <<platform, file, script, content, ruleIdx, out, orig, hist, log, snaps, wopens, prior, runs>>

\* Variant: every re.sub call is given the text as read.
RuleInputOriginal == hist[1]

\* The text a re.sub call is given as its third argument.
RuleInput == content

\* content = re.sub(pattern, replacement, content), the ruleIdx-th of the script.
ApplyRule ==
  /\ pc = "rules"
  /\ LET new == Sub(Rules(script)[ruleIdx], RuleInput)
     IN  /\ content' = new
         /\ hist' = Append(hist, new)
  /\ ruleIdx' = ruleIdx + 1
  /\ pc' = IF ruleIdx = Len(Rules(script)) THEN "write" ELSE "rules"
  /\ UNCHANGED <<platform, file, script, out, err, orig, log, snaps, wopens, prior, runs>>

\* open('main.js', 'w', encoding='utf-8') succeeds: the file is truncated.
OpenWriteOk ==
  /\ pc = "write"
  /\ file' = << >>
  /\ wopens' = wopens + 1
  /\ pc' = "opened"
  /\ UNCHANGED <<platform, script, content, ruleIdx, out, err, orig, hist, log, snaps, prior, runs>>

\* open('main.js', 'w') raises an OSError (a PermissionError, say): the file
\* is as it was.
OpenWriteFail ==
  /\ pc = "write"
  /\ err' = "OSError"
  /\ pc' = "aborted"
  /\ UNCHANGED <<platform, file, script, content, ruleIdx, out, orig, hist, log, snaps, wopens, prior, runs>>

\* f.write(content) and the close of the with block succeed.
WriteOk ==
  /\ pc = "opened"
  /\ file' = Encode(platform, content)
  /\ pc' = "print"
  /\ UNCHANGED <<platform, script, content, ruleIdx, out, err, orig, hist, log, snaps, wopens, prior, runs>>

\* A failed write is followed through two of its outcomes: nothing reached
\* the file, or half of the bytes did.
\* The write or the flush raises an OSError part way: a prefix of the bytes is
\* in the file and the process ends.
WriteFail(half) ==
  /\ pc = "opened"
  /\ LET w == Encode(platform, content)
     IN  file' = SubSeq(w, 1, IF half THEN Len(w) \div 2 ELSE 0)
  /\ err' = "OSError"
  /\ pc' = "aborted"
  /\ UNCHANGED <<platform, script, content, ruleIdx, out, orig, hist, log, snaps, wopens, prior, runs>>

\* print("... integration completed successfully!"), then the process ends.
PrintSuccess ==
  /\ pc = "print"
  /\ out' = Append(out, SuccessMessage(script))
  /\ log' = Append(log, script)
  /\ snaps' = Append(snaps, content)
  /\ pc' = "done"
  /\ UNCHANGED <<platform, file, script, content, ruleIdx, err, orig, hist, wopens, prior, runs>>

Next ==
  \/ \E s \in Scripts : Invoke(s)
  \/ ReadOk
  \/ \E e \in ReadErrors : ReadFail(e)
  \/ ApplyRule
  \/ OpenWriteOk
  \/ OpenWriteFail
  \/ \E half \in BOOLEAN : WriteFail(half)
  \/ WriteOk
  \/ PrintSuccess

Spec == Init /\ [][Next]_vars

\* ------------------------------------------------- properties: vocabulary
\* Number of matches re.findall would report: non-overlapping, from the left.
RECURSIVE MatchCountFrom(_, _, _)
MatchCountFrom(pat, buf, pos) ==
  LET p == NextMatch(pat, buf, pos)
  IN  IF p = 0 THEN 0 ELSE 1 + MatchCountFrom(pat, buf, MatchAt(pat, buf, p))

MatchCount(pat, buf) == MatchCountFrom(pat, buf, 1)

\* EmbedEnd(a, lo, hi, b, start): a[lo..hi] is embedded into b greedily from
\* position start on; the result is the position of b that takes a[hi], or
\* Len(b) + 1 when b runs out.
RECURSIVE EmbedEnd(_, _, _, _, _)
EmbedEnd(a, lo, hi, b, start) ==
  IF lo = hi
  THEN IF start <= Len(b) /\ b[start] = a[lo] THEN start
       ELSE LET js == {j \in start..Len(b) : b[j] = a[lo]}
            IN  IF js = {} THEN Len(b) + 1 ELSE Min(js)
  ELSE LET mid == (lo + hi) \div 2
           e == EmbedEnd(a, lo, mid, b, start)
       IN  IF e > Len(b) THEN e ELSE EmbedEnd(a, mid + 1, hi, b, e + 1)

\* a is b with some characters left out.
IsSubseq(a, b) == a = << >> \/ EmbedEnd(a, 1, Len(a), b, 1) <= Len(b)

\* The text by which one match of the rule makes the buffer longer.
Growth(rule) ==
  IF rule.rep[1] = G1 THEN Len(rule.rep) - 1 ELSE Len(rule.rep) - Len(rule.pat)

\* The rule sequence of script s from the i-th rule on, as a function of the
\* buffer.
RECURSIVE RunFrom(_, _, _)
RunFrom(s, i, buf) ==
  IF i > Len(Rules(s)) THEN buf ELSE RunFrom(s, i + 1, Sub(Rules(s)[i], buf))

RunScript(s, buf) == RunFrom(s, 1, buf)

\* The re.sub call that has just returned, if one has: call i took hist[i] to
\* hist[i + 1].  Every call of every run is the last one in the state it leads
\* to.
LastApplied ==
  IF pc \in {"rules", "write"} /\ Len(hist) >= 2 THEN {Len(hist) - 1} ELSE {}

CondPre == <<tIf, tABC, tRP>>

CondMedical == <<tIf, tABC, tOrMedical, tRP>>

CondForvia == <<tIf, tABC, tOrMedical, tOrForvia, tRP>>

\* ------------------------------------------------------------------- C1
\* The case of C1: call i of this run found exactly one match of its pattern.
OneMatch(i) == MatchCount(Rules(script)[i].pat, hist[i]) = 1

MatchStart(i) == NextMatch(Rules(script)[i].pat, hist[i], 1)

MatchEnd(i) == MatchAt(Rules(script)[i].pat, hist[i], MatchStart(i))

Matched(i) == SubSeq(hist[i], MatchStart(i), MatchEnd(i) - 1)

Replacement(i) == Expand(Rules(script)[i].rep, Matched(i))

\* C1 as stated: whenever a re.sub call has been given a buffer holding exactly one
\* match of its pattern, the result holds the replacement text exactly once and
\* the matched text nowhere.
C1_AsStated ==
  \A i \in LastApplied :
    OneMatch(i) =>
      /\ Count(Replacement(i), hist[i + 1]) = 1
      /\ Count(Matched(i), hist[i + 1]) = 0

\* C1, amended: whenever a re.sub call has been given a buffer holding exactly one
\* match of its pattern, the replacement text stands in the place of the match
\* and the text around it is as it was; the replacement text occurs exactly
\* once if the input did not hold it already; the matched text is gone if the
\* rule's replacement does not embed it (the condition rule and the comment
\* rule of update_medical.py, pattern3 of update_forvia.py) and otherwise (a
\* \1 rule, pattern1 of update_forvia.py) still stands where it was matched.
C1_OneMatchReplaced ==
  \A i \in LastApplied :
    OneMatch(i) =>
      LET p == MatchStart(i)
          e == MatchEnd(i)
          m == Matched(i)
          r == Replacement(i)
          after == hist[i + 1]
      IN  /\ after = SubSeq(hist[i], 1, p - 1) \o r \o SubSeq(hist[i], e, Len(hist[i]))
          /\ Count(r, after) >= 1
          /\ Count(r, hist[i]) = 0 => Count(r, after) = 1
          /\ IF Count(m, Rules(script)[i].rep) = 0 /\ Rules(script)[i].rep[1] # G1
             THEN Count(m, after) = 0
             ELSE At(m, after, p)

\* C1's case has happened, for a rule that drops the matched text and for one
\* that keeps it.
C1_Witness ==
  /\ pc = "done"
  /\ script = "medical"
  /\ OneMatch(1) /\ Count(Matched(1), hist[2]) = 0
  /\ OneMatch(2) /\ Count(Matched(2), hist[3]) = 1

\* ------------------------------------------------------------------- C2
\* No pattern of the script matches the text as read.
NoRuleMatches(s, buf) ==
  \A i \in 1..Len(Rules(s)) : NextMatch(Rules(s)[i].pat, buf, 1) = 0

\* C2 as stated: a run whose patterns match nowhere in the text it read has
\* left main.js as it was and has printed its success message.
C2_AsStated ==
  (pc = "done" /\ NoRuleMatches(script, hist[1])) =>
    /\ file = prior
    /\ out # << >> /\ out[Len(out)] = SuccessMessage(script)

\* ------------------------------------------------------------------- C3
\* The script ran twice in a row and has ended.
RanTwice ==
  pc = "done" /\ Len(log) >= 2 /\ log[Len(log)] = script /\ log[Len(log) - 1] = script

\* The buffer the first of the two runs read.
FirstInput == IF Len(log) = 2 THEN Decode(orig) ELSE snaps[Len(log) - 2]

\* The rule of script s that adds a modal block, and the block it adds.
ModalRule(s) == IF s = "medical" THEN MedicalRule2 ELSE ForviaRule2

ModalInsert(s) == IF s = "medical" THEN MedicalInsert2 ELSE ForviaInsert2

\* C3: running a script twice is not running it once.  Whenever the buffer B
\* holds a modal block the script's modal rule matches, run(run(B)) differs
\* from run(B): the second run has added the inserted block once more for
\* every match, so that two inserted blocks stand in a row.
C3_NotIdempotent ==
  (RanTwice /\ MatchCount(ModalRule(script).pat, FirstInput) >= 1) =>
    LET once == snaps[Len(log) - 1]
        twice == snaps[Len(log)]
        ins == ModalInsert(script)
    IN  /\ once = RunScript(script, FirstInput)
        /\ twice = RunScript(script, once)
        /\ twice # once
        /\ Count(ins, twice) = Count(ins, once) + MatchCount(ModalRule(script).pat, FirstInput)
        /\ Count(ins \o ins, twice) >= 1

\* update_medical.py ran twice on a buffer with a sensorSensei modal block.
C3_Witness ==
  /\ RanTwice
  /\ script = "medical"
  /\ MatchCount(MedicalRule2.pat, FirstInput) >= 1
  /\ Count(MedicalInsert2 \o MedicalInsert2, content) >= 1

\* ------------------------------------------------------------------- C4
\* C4: on a buffer with n >= 1 pre-integration conditions, update_medical.py
\* followed by update_forvia.py leaves every condition with the forviaCAR
\* clause, update_forvia.py followed by update_medical.py leaves exactly those
\* n conditions with the medical clause and no forviaCAR clause, and the two
\* results differ.
C4_OrderMatters ==
  (pc = "done" /\ Len(log) = 2 /\ Count(CondPre, Decode(orig)) >= 1) =>
    LET b == Decode(orig)
        n == Count(CondPre, b)
        mf == RunScript("forvia", RunScript("medical", b))
        fm == RunScript("medical", RunScript("forvia", b))
    IN  /\ log = <<"medical", "forvia">> =>
             /\ content = mf
             /\ content # fm
             /\ Count(CondForvia, content) = n + Count(CondMedical, b)
             /\ Count(CondMedical, content) = 0
        /\ log = <<"forvia", "medical">> =>
             /\ content = fm
             /\ content # mf
             /\ Count(CondMedical, content) = n
             /\ Count(CondPre, content) = 0

\* update_forvia.py then update_medical.py ran on a buffer with the
\* pre-integration condition.
C4_Witness ==
  /\ pc = "done"
  /\ log = <<"forvia", "medical">>
  /\ Count(CondPre, Decode(orig)) >= 1
  /\ Count(CondMedical, content) >= 1
  /\ Count(<<tOrForvia>>, content) = 0

\* ------------------------------------------------------------------- C5
\* The places of the pre-integration condition in the text as read.
CondPrePlaces == {p \in 1..Len(hist[1]) : At(CondPre, hist[1], p)}

\* C5: after a run of update_medical.py on a buffer with the pre-integration
\* condition, every occurrence of it has become the condition with the medical
\* clause before the closing parenthesis, and it occurs nowhere any more.
C5_MedicalCondition ==
  (pc = "done" /\ script = "medical" /\ CondPrePlaces # {}) =>
    /\ Decode(file) = content
    /\ Count(CondPre, content) = 0
    /\ Count(CondMedical, content) = Cardinality(CondPrePlaces) + Count(CondMedical, hist[1])
    /\ \A p \in CondPrePlaces :
         LET q == p + Cardinality({x \in CondPrePlaces : x < p})
         IN  At(CondMedical, hist[2], q)

\* update_medical.py ran on a buffer with two pre-integration conditions.
C5_Witness ==
  /\ pc = "done"
  /\ script = "medical"
  /\ Cardinality(CondPrePlaces) = 2
  /\ Count(CondMedical, content) = 2

\* ------------------------------------------------------------------- C6
\* Every piece of buf that pat matches is directly followed by ins.
FollowedBy(pat, ins, buf) ==
  \A p \in 1..Len(buf) :
    LET e == MatchAt(pat, buf, p)
    IN  e # 0 => At(ins, buf, e)

\* A medical modal block stands directly after a sensorSensei modal block.
MedicalAfterSensei(buf) ==
  \E p \in 1..Len(buf) :
    LET e == MatchAt(MedicalRule2.pat, buf, p)
    IN  e # 0 /\ MatchAt(ForviaRule2.pat, buf, e) # 0

\* C6: after a run of update_forvia.py the forviaCAR modal block stands directly
\* after every medical modal block, with nothing between the closing brace and
\* the inserted text, one block added per medical block; and the forviaCAR
\* reset block stands directly after every medical reset block, of the "going
\* back to overview" and of the "navigating to different areas" form.
C6_ForviaBlocks ==
  (pc = "done" /\ script = "forvia") =>
    /\ Decode(file) = content
    /\ FollowedBy(ForviaRule2.pat, ForviaInsert2, content)
    /\ FollowedBy(ForviaRule4.pat, ForviaInsert4, content)
    /\ FollowedBy(ForviaRule5.pat, ForviaInsert5, content)
    /\ Count(ForviaInsert2, content)
         = Count(ForviaInsert2, hist[1]) + MatchCount(ForviaRule2.pat, hist[1])
    /\ Count(ForviaInsert4, content)
         = Count(ForviaInsert4, hist[1]) + MatchCount(ForviaRule4.pat, hist[1])
    /\ Count(ForviaInsert5, content)
         = Count(ForviaInsert5, hist[1]) + MatchCount(ForviaRule5.pat, hist[1])

\* update_forvia.py ran on a buffer with a medical modal block after a
\* sensorSensei modal block and with a medical reset block.
C6_Witness ==
  /\ pc = "done"
  /\ script = "forvia"
  /\ MedicalAfterSensei(hist[1])
  /\ MatchCount(ForviaRule5.pat, hist[1]) >= 1
  /\ Count(<<tRB>> \o ForviaInsert2, content) >= 1
  /\ Count(<<tMedicalOpened>> \o ForviaInsert5, content) >= 1

\* ------------------------------------------------------------------- C7
\* C7: an exception ends the process at once; after a failed read no re.sub
\* was called, main.js was not opened for writing and is as it was when the
\* run started, and the run has printed nothing; no run has printed its
\* message before its end, and a run that has printed it made every re.sub
\* call, opened main.js for writing once and left its whole text in it.
C7_AllOrNothing ==
  /\ err # "none" => pc = "aborted"
  /\ err \in ReadErrors =>
       /\ file = prior
       /\ wopens = 0
       /\ hist = << >>
       /\ content = << >>
  /\ pc \in {"read", "rules", "write", "opened", "print", "aborted"} => Len(out) = runs - 1
  /\ pc = "done" =>
       /\ Len(out) = runs
       /\ out[runs] = SuccessMessage(script)
       /\ Len(hist) = Len(Rules(script)) + 1
       /\ wopens = 1
       /\ file = Encode(platform, content)

\* A run has ended in a failed read of a main.js that has text.
C7_Witness ==
  /\ pc = "aborted"
  /\ err = "FileNotFoundError"
  /\ runs = 2
  /\ file # << >>
  /\ Len(out) = 1

\* ------------------------------------------------------------------- C8
\* C8: the text a run has written is the left fold of the script's rules, in
\* their order, over the text it read: call i was given the result of call
\* i - 1, and it replaced every non-overlapping match (the text grew by the
\* inserted text once per match).
C8_LeftFold ==
  pc = "done" =>
    /\ hist[1] = Decode(prior)
    /\ Len(hist) = Len(Rules(script)) + 1
    /\ content = hist[Len(hist)]
    /\ content = RunScript(script, hist[1])
    /\ file = Encode(platform, content)
    /\ \A i \in 1..Len(Rules(script)) :
         LET rule == Rules(script)[i]
         IN  Len(hist[i + 1]) = Len(hist[i]) + MatchCount(rule.pat, hist[i]) * Growth(rule)

\* A run has ended in which two different re.sub calls found matches, the
\* later one in a text the earlier one had changed.
C8_Witness ==
  /\ pc = "done"
  /\ \E i, j \in 1..Len(Rules(script)) :
       /\ i < j
       /\ MatchCount(Rules(script)[i].pat, hist[i]) >= 1
       /\ MatchCount(Rules(script)[j].pat, hist[j]) >= 1
       /\ hist[j] # hist[1]
       /\ content # Sub(Rules(script)[j], hist[1])

\* ------------------------------------------------------------------- C9
\* C9: no re.sub call makes the buffer shorter or drops or reorders text of
\* it, and after every run that reached its end the buffer first read is a
\* subsequence of the buffer, as is the buffer this run read.
C9_InsertionOnly ==
  /\ \A i \in LastApplied :
       /\ Len(hist[i]) <= Len(hist[i + 1])
       /\ IsSubseq(hist[i], hist[i + 1])
  /\ pc = "done" =>
       /\ Decode(file) = content
       /\ Len(Decode(orig)) <= Len(content)
       /\ IsSubseq(Decode(orig), content)
       /\ IsSubseq(hist[1], content)

\* Two runs have ended and the buffer has grown.
C9_Witness ==
  /\ pc = "done"
  /\ Len(log) = 2
  /\ log[1] # log[2]
  /\ Len(content) > Len(hist[1])
  /\ Len(hist[1]) > Len(Decode(orig))

\* ------------------------------------------------------------------ C10
\* Every run so far was a run of script s.
AllRuns(s) == \A i \in 1..Len(log) : log[i] = s

Repeat(x, k) == [i \in 1..k |-> x]

\* C10: after k runs of update_forvia.py on a buffer without forviaCAR clauses,
\* every condition that ended in the medical clause has exactly k forviaCAR
\* clauses; after k >= 1 runs of update_medical.py every pre-integration
\* condition has exactly one medical clause.
C10_Clauses ==
  pc = "done" =>
    LET b == Decode(orig)
        k == Len(log)
    IN  /\ (AllRuns("forvia") /\ Count(<<tOrForvia>>, b) = 0) =>
             /\ Count(<<tIf, tABC, tOrMedical>> \o Repeat(tOrForvia, k) \o <<tRP>>, content)
                  = Count(CondMedical, b)
             /\ Count(<<tOrForvia>>, content) = k * Count(<<tABC, tOrMedical>>, b)
        /\ AllRuns("medical") =>
             /\ Count(CondPre, content) = 0
             /\ Count(CondMedical, content) = Count(CondPre, b) + Count(CondMedical, b)
             /\ Count(<<tOrMedical>>, content) = Count(CondPre, b) + Count(<<tOrMedical>>, b)

\* update_forvia.py ran twice on a buffer with one medical condition.
C10_Witness ==
  /\ pc = "done"
  /\ log = <<"forvia", "forvia">>
  /\ Count(CondMedical, Decode(orig)) = 1
  /\ Count(<<tIf, tABC, tOrMedical, tOrForvia, tOrForvia, tRP>>, content) = 1

====
